---- MODULE Spec2Model ----
(***************************************************************************)
(* Verification model of cmd/dla/main.go (dockerutils "dla": docker log   *)
(* aggregator).  Three state machines share the module:                   *)
(*   Spec         - FanInWriter.Write / fullWrite under concurrent callers *)
(*   ResolveSpec  - getContainersByNames (concurrent lookups, dedupe)     *)
(*   LogSpec      - logContainers / LineWriter / FanInWriter end to end   *)
(***************************************************************************)
EXTENDS Integers, Sequences, FiniteSets, TLC

(***************************************************************************)
(* Part 1: FanInWriter                                                     *)
(***************************************************************************)

\* number of goroutines calling FanInWriter.Write concurrently
NumWriters == 4

Writers == 1..NumWriters

\* each caller's multi-byte payload; bytes are tagged with the writer id
\* so that an interleaving is visible in the destination
Payload(w) == [i \in 1..(1 + (w % 2) + 1) |-> w * 10 + i]

VARIABLES
    wpc,     \* position of each caller: "idle", "writing" (inside fullWrite), "done"
    mu,      \* FanInWriter.mu: holder id, 0 when unlocked
    wn,      \* fullWrite's local n for each caller
    werr,    \* fullWrite returned the error of a destination Write
    dest     \* bytes accepted by the underlying io.Writer fiw.out

fanVars == <<wpc, mu, wn, werr, dest>>

FanInit ==
    /\ wpc = [w \in Writers |-> "idle"]
    /\ mu = 0
    /\ wn = [w \in Writers |-> 0]
    /\ werr = [w \in Writers |-> FALSE]
    /\ dest = <<>>

\* a Lock that does not exclude other holders
LockMuNoExcl(w) == mu' = w

\* fiw.mu.Lock()
LockMu(w) == mu = 0 /\ mu' = w

\* FanInWriter.Write, first statement: fiw.mu.Lock(), then enter fullWrite
FanInLock(w) ==
    /\ wpc[w] = "idle"
    /\ LockMu(w)
    /\ wpc' = [wpc EXCEPT ![w] = "writing"]
    /\ wn' = [wn EXCEPT ![w] = 0]
    /\ UNCHANGED <<werr, dest>>

\* one iteration of the fullWrite loop: w.Write(b[n:]) accepts lw bytes
\* (0 <= lw <= len(b[n:])) and returns a nil or a non-nil error; n += lw;
\* on an error fullWrite returns (n, err)
FullWriteStep(w) ==
    /\ wpc[w] = "writing"
    /\ ~werr[w]
    /\ wn[w] < Len(Payload(w))
    /\ \E lw \in 0..(Len(Payload(w)) - wn[w]), e \in BOOLEAN :
          /\ dest' = dest \o SubSeq(Payload(w), wn[w] + 1, wn[w] + lw)
          /\ wn' = [wn EXCEPT ![w] = wn[w] + lw]
          /\ werr' = [werr EXCEPT ![w] = e]
    /\ UNCHANGED <<wpc, mu>>

\* fullWrite returns (loop exit with n == len(b), or its error return),
\* then fiw.mu.Unlock() and Write returns (n, err)
FanInUnlock(w) ==
    /\ wpc[w] = "writing"
    /\ wn[w] = Len(Payload(w)) \/ werr[w]
    /\ mu' = 0
    /\ wpc' = [wpc EXCEPT ![w] = "done"]
    /\ UNCHANGED <<wn, werr, dest>>

FanNext ==
    \/ \E w \in Writers : FanInLock(w)
    \/ \E w \in Writers : FullWriteStep(w)
    \/ \E w \in Writers : FanInUnlock(w)

\* dest is a concatenation of whole payloads of distinct callers in S,
\* possibly followed by a proper prefix of the payload of a caller that is
\* still inside fullWrite
RECURSIVE WholePayloads(_, _)
WholePayloads(d, S) ==
    \/ d = <<>>
    \/ \E w \in S :
          \/ /\ Len(d) >= Len(Payload(w))
             /\ SubSeq(d, 1, Len(Payload(w))) = Payload(w)
             /\ WholePayloads(SubSeq(d, Len(Payload(w)) + 1, Len(d)), S \ {w})
          \/ /\ wpc[w] = "writing"
             /\ Len(d) < Len(Payload(w))
             /\ d = SubSeq(Payload(w), 1, Len(d))

\* C1: atomic fan-in. Whatever the interleaving of concurrent
\* FanInWriter.Write callers and however few bytes the destination accepts
\* per underlying write, the destination holds whole payloads one after
\* another (plus the in-progress prefix of the single caller inside
\* fullWrite); the bytes of two calls never interleave. (As stated: whole
\* payloads only.)
C1_AtomicFanIn == WholePayloads(dest, Writers)

\* dest is a concatenation of blocks of distinct callers in S; each block
\* is a caller's whole payload, or a prefix of it when that caller's
\* fullWrite returned a destination error, or the in-progress prefix of
\* the caller still inside fullWrite (last block)
RECURSIVE Blocks(_, _)
Blocks(d, S) ==
    \/ d = <<>>
    \/ \E w \in S : \E k \in 1..Len(Payload(w)) :
          /\ k <= Len(d)
          /\ SubSeq(d, 1, k) = SubSeq(Payload(w), 1, k)
          /\ \/ k = Len(Payload(w))
             \/ werr[w] /\ k = wn[w]
             \/ wpc[w] = "writing" /\ k = Len(d)
          /\ Blocks(SubSeq(d, k + 1, Len(d)), S \ {w})

\* C1 (as corrected): the bytes of two FanInWriter.Write calls never
\* interleave. The destination holds one contiguous block per call, in
\* some order; a block is the whole payload unless that call's
\* destination Write failed, which cuts it short (Write returns n, err).
C1_NoInterleave == Blocks(dest, Writers)

\* C1 witness: a caller's destination Write failed after part of its
\* payload, another caller's whole payload followed it, and an earlier
\* one needed several destination writes
C1_Witness ==
    /\ \E w, v \in Writers :
          /\ w # v
          /\ werr[w] /\ wpc[w] = "done" /\ 0 < wn[w] /\ wn[w] < Len(Payload(w))
          /\ wpc[v] = "done" /\ ~werr[v]
          /\ Len(dest) >= wn[w] + Len(Payload(v))
          /\ SubSeq(dest, 1, wn[w] + Len(Payload(v))) = SubSeq(Payload(w), 1, wn[w]) \o Payload(v)

(***************************************************************************)
(* Part 2: getContainersByNames                                            *)
(***************************************************************************)

\* largest number of name filters passed on the command line
MaxNames == 2

\* number of distinct container IDs the docker daemon may report
NumIDs == 2

ContainerIDs == 1..NumIDs

\* a docker.APIContainers list without repeated IDs (as ListContainers
\* returns it), or an error
RECURSIVE DistinctSeqs(_)
DistinctSeqs(S) ==
    {<<>>} \cup UNION { { <<c>> \o t : t \in DistinctSeqs(S \ {c}) } : c \in S }

\* error value returned by the lookup of filter i (0 is a nil error)
LookupErr(i) == 100 + i

NilErr == 0

\* contr{conts, err} produced by one lookup goroutine
LookupResults(i) ==
    [conts : DistinctSeqs(ContainerIDs), err : {NilErr}]
    \cup [conts : {<<>>}, err : {LookupErr(i)}]

VARIABLES
    nNames,  \* len(names)
    lookup,  \* what getContainerForName returns for filter i
    gpc,     \* each lookup goroutine: "run" or "done" (after wg.Done)
    ch,      \* buffered channel ch, in send order
    ret,     \* value returned by getContainersByNames: [conts, isNil, err]
    returned,\* getContainersByNames has returned
    clientOk,\* docker.NewClientFromEnv succeeds
    mpc,     \* main: "client", "resolve", "streaming" (in logContainers), "exited"
    mcode,   \* exit status once main has ended
    mmsg     \* messages main printed

resVars == <<nNames, lookup, gpc, ch, ret, returned, clientOk, mpc, mcode, mmsg>>

\* "Unable to setup connection to docker", "Error retrieving container
\* information", "No services meet the criteria"
MsgClientErr == 601
MsgResolveErr == 602
MsgNoServices == 600

\* the zero return value before the function returns
NoRet == [conts |-> <<>>, isNil |-> TRUE, err |-> NilErr]

ResolveInit ==
    /\ nNames \in 0..MaxNames
    /\ lookup \in { f \in [1..MaxNames -> UNION {LookupResults(j) : j \in 1..MaxNames}] :
                      \A i \in 1..MaxNames : f[i] \in LookupResults(i) }
    /\ gpc = [i \in 1..MaxNames |-> IF i <= nNames THEN "run" ELSE "done"]
    /\ ch = <<>>
    /\ ret = NoRet
    /\ returned = FALSE
    /\ clientOk \in BOOLEAN
    /\ mpc = "client"
    /\ mcode = 0
    /\ mmsg = <<>>

\* main: client, err := docker.NewClientFromEnv(); on error print, os.Exit(1)
MainClient ==
    /\ mpc = "client"
    /\ IF clientOk
       THEN UNCHANGED <<mcode, mmsg>> /\ mpc' = "resolve"
       ELSE mmsg' = <<MsgClientErr>> /\ mcode' = 1 /\ mpc' = "exited"
    /\ UNCHANGED <<nNames, lookup, gpc, ch, ret, returned, clientOk>>

\* case 0: return getAllContainers(client) (lookup[1] stands for ListContainers)
ResolveAll ==
    /\ mpc = "resolve"
    /\ nNames = 0
    /\ ~returned
    /\ ret' = [conts |-> lookup[1].conts, isNil |-> lookup[1].err # NilErr,
               err |-> lookup[1].err]
    /\ returned' = TRUE
    /\ UNCHANGED <<nNames, lookup, gpc, ch, clientOk, mpc, mcode, mmsg>>

\* goroutine for filter i: getContainerForName, ch <- contr{...}, wg.Done()
LookupSend(i) ==
    /\ mpc = "resolve"
    /\ i <= nNames
    /\ gpc[i] = "run"
    /\ ch' = Append(ch, lookup[i])
    /\ gpc' = [gpc EXCEPT ![i] = "done"]
    /\ UNCHANGED <<nNames, lookup, ret, returned, clientOk, mpc, mcode, mmsg>>

\* a range loop that skips failed lookups instead of returning their error
RECURSIVE CollectLoopSkipErr(_, _)
CollectLoopSkipErr(cs, conts) ==
    IF cs = <<>> THEN [conts |-> conts, isNil |-> FALSE, err |-> NilErr]
    ELSE IF Head(cs).err # NilErr THEN CollectLoopSkipErr(Tail(cs), conts)
    ELSE CollectLoopSkipErr(Tail(cs), conts \o Head(cs).conts)

\* for contr := range ch { if contr.err != nil { return nil, contr.err };
\*                         conts = append(conts, contr.conts...) }
RECURSIVE CollectLoop(_, _)
CollectLoop(cs, conts) ==
    IF cs = <<>> THEN [conts |-> conts, isNil |-> FALSE, err |-> NilErr]
    ELSE IF Head(cs).err # NilErr THEN [conts |-> <<>>, isNil |-> TRUE, err |-> Head(cs).err]
    ELSE CollectLoop(Tail(cs), conts \o Head(cs).conts)

\* dedupe: found := map{}; out := conts[:0];
\*         for cont { if _, ok := found[cont.ID]; !ok { out = append(out, cont) } }
\* (found is never written)
RECURSIVE DedupeLoop(_, _, _)
DedupeLoop(cs, found, out) ==
    IF cs = <<>> THEN out
    ELSE DedupeLoop(Tail(cs), found,
                    IF Head(cs) \in found THEN out ELSE Append(out, Head(cs)))

Dedupe(conts) == DedupeLoop(conts, {}, <<>>)

\* wg.Wait(); close(ch); range loop; dedupe; return out, nil
ResolveCollect ==
    /\ mpc = "resolve"
    /\ nNames > 0
    /\ ~returned
    /\ \A i \in 1..nNames : gpc[i] = "done"
    /\ LET r == CollectLoop(ch, <<>>) IN
         ret' = IF r.err # NilErr THEN r ELSE [r EXCEPT !.conts = Dedupe(r.conts)]
    /\ returned' = TRUE
    /\ UNCHANGED <<nNames, lookup, gpc, ch, clientOk, mpc, mcode, mmsg>>

\* a check written as len(conts) < 0
MainAfterResolveLenLt ==
    /\ mpc = "resolve"
    /\ returned
    /\ IF ret.err # NilErr
       THEN mmsg' = Append(mmsg, MsgResolveErr) /\ mcode' = 1 /\ mpc' = "exited"
       ELSE IF Len(ret.conts) < 0
       THEN mmsg' = Append(mmsg, MsgNoServices) /\ mcode' = 0 /\ mpc' = "exited"
       ELSE IF Len(ret.conts) <= 0
       THEN UNCHANGED <<mmsg, mcode>> /\ mpc' = "exited"
       ELSE UNCHANGED <<mmsg, mcode>> /\ mpc' = "streaming"
    /\ UNCHANGED <<nNames, lookup, gpc, ch, ret, returned, clientOk>>

\* main after getContainersByNames: on error print and os.Exit(1); with no
\* containers print "No services meet the criteria" and return (status 0);
\* otherwise logContainers(client, conts)
MainAfterResolve ==
    /\ mpc = "resolve"
    /\ returned
    /\ IF ret.err # NilErr
       THEN mmsg' = Append(mmsg, MsgResolveErr) /\ mcode' = 1 /\ mpc' = "exited"
       ELSE IF Len(ret.conts) <= 0
       THEN mmsg' = Append(mmsg, MsgNoServices) /\ mcode' = 0 /\ mpc' = "exited"
       ELSE UNCHANGED <<mmsg, mcode>> /\ mpc' = "streaming"
    /\ UNCHANGED <<nNames, lookup, gpc, ch, ret, returned, clientOk>>

ResolveNext ==
    \/ MainClient
    \/ ResolveAll
    \/ \E i \in 1..MaxNames : LookupSend(i)
    \/ ResolveCollect
    \/ MainAfterResolve

\* each ID of cs once, in first-seen order
RECURSIVE FirstSeen(_, _)
FirstSeen(cs, seen) ==
    IF cs = <<>> THEN <<>>
    ELSE IF Head(cs) \in seen THEN FirstSeen(Tail(cs), seen)
    ELSE <<Head(cs)>> \o FirstSeen(Tail(cs), seen \cup {Head(cs)})

\* the concatenation of the successful lookups' lists, in channel order
Concatenated == CollectLoop(ch, <<>>).conts

\* C2: dedup invariant. When the non-empty filter list resolves without
\* error, getContainersByNames returns each container ID of the
\* concatenated per-filter results exactly once, in first-seen order.
C2_Dedup ==
    (returned /\ nNames > 0 /\ ret.err = NilErr)
        => ret.conts = FirstSeen(Concatenated, {})

\* C3: all-or-nothing resolution. With a non-empty filter list, if some
\* lookup fails the call returns a nil list and the error of one of the
\* failed lookups; if none fails it returns no error.
C3_AllOrNothing ==
    (returned /\ nNames > 0) =>
        /\ (\E i \in 1..nNames : lookup[i].err # NilErr) =>
               /\ ret.isNil
               /\ ret.err \in {lookup[i].err : i \in {j \in 1..nNames : lookup[j].err # NilErr}}
        /\ (\A i \in 1..nNames : lookup[i].err = NilErr) => ret.err = NilErr

\* C3 witness: two failing filters, and the error returned is the one of
\* the later-submitted lookup (it completed first)
C3_Witness ==
    /\ returned
    /\ nNames = 2
    /\ lookup[1].err # NilErr
    /\ ret.err = LookupErr(2)
    /\ ret.isNil

(***************************************************************************)
(* Part 3: logContainers, LineWriter and the two FanInWriters              *)
(***************************************************************************)

\* number of containers streamed by logContainers
NumSources == 2

\* failures the stdout/stderr files may return on write during one run
MaxSinkFailures == 1

Sources == 1..NumSources

Sides == {"out", "err"}

NL == 10
CR == 13

VARIABLES
    script,   \* per source: the Write calls its client.Logs makes
    lend,     \* per source: how its client.Logs call ends
    noColor,  \* color.NoColor
    lpc,      \* per source goroutine: "run", "wait" (in a pipe Write),
              \* "exiting" (between the failure message and os.Exit), "failed", "done"
    lidx,     \* per source: index of the next Write of client.Logs
    pipe,     \* per source and side: bytes of the pending io.Pipe Write
    fpc,      \* per framer goroutine: "scan", "lock" (line built, writing),
              \* "errlog" (write failed, message next), "end"
    fbuf,     \* per framer: bufio.Scanner's unconsumed buffer
    ftok,     \* per framer: scan.Bytes() of the current line
    fline,    \* per framer: bytes handed to the FanInWriter
    out,      \* per side: bytes at os.Stdout ("out") / os.Stderr ("err")
    sinkFails,\* write failures the files have returned so far
    sent,     \* per framer: tokens whose line the FanInWriter delivered
    tagOf,    \* per source: tag := tagFmt(name)
    tstore,   \* per framer: <<index, byte>> stores its appends made into the
              \* spare capacity of its source's tag backing array
    fshared,  \* per framer: its current line aliases the tag backing array
    exited,   \* the process has ended
    exitCode  \* its exit status

logVars == <<script, lend, noColor, lpc, lidx, pipe, fpc, fbuf, ftok, fline,
             out, sinkFails, sent, exited, exitCode, tagOf, tstore, fshared>>

\* tagFmt(name) for the container of source s
Tag(s) == tagOf[s]

\* an abstract tag: one symbol per source (tagConfig is modelled in Part 4),
\* a 1-element slice whose backing array has capacity RoundUpSize(1)
SymbolTags == [s \in Sources |-> <<200 + s>>]

\* fmt.Printf("Stream %s exited.\n", name)
MsgExited(s) == <<300 + s, NL>>

\* fmt.Fprintf(os.Stderr, "Logger failed for %s: %s\n", name, err)
MsgLoggerFailed(s) == <<500 + s, NL>>

\* fmt.Printf("Error attempting to write to dest: %s\n", err)
MsgWriteErr == <<400, NL>>

\* what client.Logs writes, in order, into OutputStream ("out") and
\* ErrorStream ("err"): one Write call per element
ScriptUnterminated == << [side |-> "out", data |-> <<97, NL, 98, NL, 99>>] >>

ScriptTwoWrites == << [side |-> "out", data |-> <<97, NL, 98, NL>>], [side |-> "out", data |-> <<99, NL>>] >>

ScriptBothSides == << [side |-> "err", data |-> <<97, CR, NL>>], [side |-> "out", data |-> <<98, NL>>] >>

ScriptOneLine == << [side |-> "out", data |-> <<100, NL>>] >>

\* client.Logs writes nothing (it fails, or ends, before opening the streams)
ScriptNone == << >>

LogsScripts == {ScriptUnterminated, ScriptTwoWrites, ScriptBothSides}

\* how client.Logs ends after its writes: returns nil, returns an error,
\* or keeps following a container that produces nothing more
LogsEnds == {"ok", "err", "follow"}

\* the position of the last '\n' instead of the first
IndexNLLast(b) ==
    IF \E i \in 1..Len(b) : b[i] = NL
    THEN CHOOSE i \in 1..Len(b) : b[i] = NL /\ \A j \in (i + 1)..Len(b) : b[j] # NL
    ELSE 0

\* position of the first '\n' in b, 0 if none (bytes.IndexByte + 1)
IndexNL(b) ==
    IF \E i \in 1..Len(b) : b[i] = NL
    THEN CHOOSE i \in 1..Len(b) : b[i] = NL /\ \A j \in 1..(i - 1) : b[j] # NL
    ELSE 0

\* bufio.dropCR
DropCR(b) == IF Len(b) > 0 /\ b[Len(b)] = CR THEN SubSeq(b, 1, Len(b) - 1) ELSE b

\* bufio.ScanLines on a buffer that is not at EOF: [advance, token]
ScanLines(b) ==
    LET i == IndexNL(b) IN
    IF i > 0 THEN [adv |-> i, tok |-> DropCR(SubSeq(b, 1, i - 1)), ok |-> TRUE]
    ELSE [adv |-> 0, tok |-> <<>>, ok |-> FALSE]

\* scanLinesKeepCR(data, atEOF) (defined in main.go, never installed with
\* scan.Split): [advance, token, ok]
ScanLinesKeepCR(b, atEOF) ==
    LET i == IndexNL(b) IN
    IF atEOF /\ Len(b) = 0 THEN [adv |-> 0, tok |-> <<>>, ok |-> FALSE]
    ELSE IF i > 0 THEN [adv |-> i, tok |-> SubSeq(b, 1, i), ok |-> TRUE]
    ELSE IF atEOF THEN [adv |-> Len(b), tok |-> b, ok |-> TRUE]
    ELSE [adv |-> 0, tok |-> <<>>, ok |-> FALSE]

\* strconv of a byte value, as fmt prints it
RECURSIVE Digits(_)
Digits(n) == IF n < 10 THEN <<48 + n>> ELSE Digits(n \div 10) \o <<48 + (n % 10)>>

RECURSIVE JoinDigits(_)
JoinDigits(b) ==
    IF b = <<>> THEN <<>>
    ELSE IF Len(b) = 1 THEN Digits(Head(b))
    ELSE Digits(Head(b)) \o <<32>> \o JoinDigits(Tail(b))

\* fmt.Sprint(b) for b []byte: "[97 98]"
SprintBytes(b) == <<91>> \o JoinDigits(b) \o <<93>>

\* (*color.Color).Sprint for color.New(color.FgHiRed): "\x1b[91m" s "\x1b[0m",
\* or s unchanged when color.NoColor is set (output is not a terminal)
ColorWrap(noCol, b) ==
    IF noCol THEN b ELSE <<27, 91, 57, 49, 109>> \o b \o <<27, 91, 48, 109>>

\* logLine in LineWriter: color.Sprint(scan.Bytes()) for the ErrorStream
\* framer, scan.Bytes() for the OutputStream framer (color == nil)
LogLine(k, noCol, tok) ==
    IF k = "err" THEN ColorWrap(noCol, SprintBytes(tok)) ELSE tok

\* Go's small-object size classes (runtime sizeclasses.go), up to 128 bytes
SizeClasses == <<8, 16, 24, 32, 48, 64, 80, 96, 112, 128>>

\* cap of []byte(s) for a heap-allocated conversion: roundupsize(len(s))
RoundUpSize(n) ==
    SizeClasses[CHOOSE i \in 1..Len(SizeClasses) :
                   SizeClasses[i] >= n /\ \A j \in 1..(i - 1) : SizeClasses[j] < n]

\* append(tag, append(logLine, []byte("\n")...)...)
LineBytes(s, k, noCol, tok) == Tag(s) \o LogLine(k, noCol, tok) \o <<NL>>


Framers == Sources \X Sides

\* state after logContainers has spawned its goroutines, for containers
\* whose client.Logs behaviour is drawn from Scr (the first container) and
\* Scr2 (the others) and Ends
LogInitCore(Scr, Scr2, Ends, NoCols) ==
    /\ script \in {sc \in [Sources -> Scr \cup Scr2] :
                      sc[1] \in Scr /\ \A s \in Sources \ {1} : sc[s] \in Scr2}
    /\ lend \in [Sources -> Ends]
    /\ noColor \in NoCols
    /\ lpc = [s \in Sources |-> "run"]
    /\ lidx = [s \in Sources |-> 1]
    /\ pipe = [f \in Framers |-> <<>>]
    /\ fpc = [f \in Framers |-> "scan"]
    /\ fbuf = [f \in Framers |-> <<>>]
    /\ ftok = [f \in Framers |-> <<>>]
    /\ fline = [f \in Framers |-> <<>>]
    /\ out = [k \in Sides |-> <<>>]
    /\ sinkFails = 0
    /\ sent = [f \in Framers |-> <<>>]
    /\ tstore = [f \in Framers |-> {}]
    /\ fshared = [f \in Framers |-> FALSE]
    /\ exited = FALSE
    /\ exitCode = 0

LogInitFrom2(Scr, Scr2, Ends, NoCols) == LogInitCore(Scr, Scr2, Ends, NoCols) /\ tagOf = SymbolTags

LogInitFrom(Scr, Ends, NoCols) == LogInitFrom2(Scr, Scr, Ends, NoCols)

\* the first container's client.Logs makes any of the scripted writes, the
\* others write one stdout line; each call ends in any way; any terminal mode
LogInit == LogInitFrom2(LogsScripts, {ScriptOneLine}, LogsEnds, BOOLEAN)

\* client.Logs writes its next chunk into the PipeWriter of that side;
\* io.PipeWriter.Write blocks until the reader has taken every byte
LogsWrite(s) ==
    /\ ~exited
    /\ lpc[s] = "run"
    /\ lidx[s] <= Len(script[s])
    /\ LET w == script[s][lidx[s]] IN
         pipe' = [pipe EXCEPT ![<<s, w.side>>] = w.data]
    /\ lpc' = [lpc EXCEPT ![s] = "wait"]
    /\ UNCHANGED <<tagOf, tstore, fshared, script, lend, noColor, lidx, fpc, fbuf, ftok, fline, out,
                   sinkFails, sent, exited, exitCode>>

\* a task that reports a failed client.Logs and returns (wg.Done) instead of
\* calling os.Exit(1)
LogsReturnNoExit(s) ==
    /\ ~exited
    /\ lpc[s] = "run"
    /\ lidx[s] > Len(script[s])
    /\ lend[s] # "follow"
    /\ IF lend[s] = "ok"
       THEN out' = [out EXCEPT !["out"] = out["out"] \o MsgExited(s)]
       ELSE out' = [out EXCEPT !["err"] = out["err"] \o MsgLoggerFailed(s)]
    /\ lpc' = [lpc EXCEPT ![s] = "done"]
    /\ UNCHANGED <<exited, exitCode>>
    /\ UNCHANGED <<tagOf, tstore, fshared, script, lend, noColor, lidx, pipe, fpc, fbuf, ftok, fline,
                   sinkFails, sent>>

\* client.Logs returns. err == nil: fmt.Printf("Stream %s exited.\n",
\* name) and the deferred wg.Done(). err != nil: fmt.Fprintf(os.Stderr,
\* "Logger failed for %s: %s\n", name, err), then os.Exit(1) in a step of
\* its own (LogsExit). A following call on a silent container never returns.
LogsReturn(s) ==
    /\ ~exited
    /\ lpc[s] = "run"
    /\ lidx[s] > Len(script[s])
    /\ lend[s] # "follow"
    /\ IF lend[s] = "ok"
       THEN /\ out' = [out EXCEPT !["out"] = out["out"] \o MsgExited(s)]
            /\ lpc' = [lpc EXCEPT ![s] = "done"]
            /\ UNCHANGED <<exited, exitCode>>
       ELSE /\ out' = [out EXCEPT !["err"] = out["err"] \o MsgLoggerFailed(s)]
            /\ lpc' = [lpc EXCEPT ![s] = "exiting"]
            /\ UNCHANGED <<exited, exitCode>>
    /\ UNCHANGED <<tagOf, tstore, fshared, script, lend, noColor, lidx, pipe, fpc, fbuf, ftok, fline,
                   sinkFails, sent>>

\* os.Exit(1) after the "Logger failed" message
LogsExit(s) ==
    /\ ~exited
    /\ lpc[s] = "exiting"
    /\ lpc' = [lpc EXCEPT ![s] = "failed"]
    /\ exited' = TRUE
    /\ exitCode' = 1
    /\ UNCHANGED <<tagOf, tstore, fshared, script, lend, noColor, lidx, pipe, fpc, fbuf, ftok,
                   fline, out, sinkFails, sent>>

\* a wait that returns as soon as one task has called wg.Done
MainReturnEarly ==
    /\ ~exited
    /\ \E s \in Sources : lpc[s] = "done"
    /\ exited' = TRUE
    /\ exitCode' = 0
    /\ UNCHANGED <<tagOf, tstore, fshared, script, lend, noColor, lpc, lidx, pipe, fpc, fbuf, ftok, fline,
                   out, sinkFails, sent>>

\* wg.Wait() returns in logContainers; main returns; exit status 0
MainReturn ==
    /\ ~exited
    /\ \A s \in Sources : lpc[s] = "done"
    /\ exited' = TRUE
    /\ exitCode' = 0
    /\ UNCHANGED <<tagOf, tstore, fshared, script, lend, noColor, lpc, lidx, pipe, fpc, fbuf, ftok, fline,
                   out, sinkFails, sent>>

\* scan.Scan(): no line in the buffer, so it reads the pipe and takes the
\* whole pending chunk, which lets the blocked PipeWriter.Write in
\* client.Logs return (the PipeReader is never closed, so no EOF is seen)
FramerRead(f) ==
    /\ ~exited
    /\ fpc[f] = "scan"
    /\ ~ScanLines(fbuf[f]).ok
    /\ pipe[f] # <<>>
    /\ fbuf' = [fbuf EXCEPT ![f] = fbuf[f] \o pipe[f]]
    /\ pipe' = [pipe EXCEPT ![f] = <<>>]
    /\ lpc' = [lpc EXCEPT ![f[1]] = "run"]
    /\ lidx' = [lidx EXCEPT ![f[1]] = lidx[f[1]] + 1]
    /\ UNCHANGED <<tagOf, tstore, fshared, script, lend, noColor, fpc, ftok, fline, out,
                   sinkFails, sent, exited, exitCode>>

\* the other framer of the same container (same tag slice)
Sibling(f) == <<f[1], IF f[2] = "out" THEN "err" ELSE "out">>

\* scan.Scan() returns a line; the loop body builds the bytes to write with
\* append(tag, x...): when len(tag) + len(x) <= cap(tag) the bytes of x are
\* stored into the spare capacity of the tag's backing array, which the
\* container's other framer shares; otherwise a new array is allocated
FramerToken(f) ==
    /\ ~exited
    /\ fpc[f] = "scan"
    /\ ScanLines(fbuf[f]).ok
    /\ LET r == ScanLines(fbuf[f])
           x == LogLine(f[2], noColor, r.tok) \o <<NL>>
           L == Len(Tag(f[1]))
           fits == L + Len(x) <= RoundUpSize(L)
       IN
         /\ ftok' = [ftok EXCEPT ![f] = r.tok]
         /\ fline' = [fline EXCEPT ![f] = LineBytes(f[1], f[2], noColor, r.tok)]
         /\ fbuf' = [fbuf EXCEPT ![f] = SubSeq(fbuf[f], r.adv + 1, Len(fbuf[f]))]
         /\ fshared' = [fshared EXCEPT ![f] = fits]
         /\ tstore' = IF fits
                       THEN [tstore EXCEPT ![f] = tstore[f] \cup {<<L + j, x[j]>> : j \in 1..Len(x)}]
                       ELSE tstore
    /\ fpc' = [fpc EXCEPT ![f] = "lock"]
    /\ UNCHANGED <<tagOf, script, lend, noColor, lpc, lidx, pipe, out,
                   sinkFails, sent, exited, exitCode>>

\* the bytes the file write reads from the line of f. A private array holds
\* fline[f]. An aliased one is raced on by the sibling's appends (no
\* synchronisation orders them): each byte after the tag is f's own store or
\* any store the sibling has made at that index.
RECURSIVE Products(_)
Products(opts) ==
    IF opts = <<>> THEN {<<>>}
    ELSE {<<x>> \o r : x \in Head(opts), r \in Products(Tail(opts))}

LineChoices(f) ==
    IF ~fshared[f] \/ tstore[Sibling(f)] = {} THEN {fline[f]}
    ELSE LET b == fline[f]
             L == Len(Tag(f[1]))
             Opt(i) == {b[i]} \cup (IF i > L THEN {p[2] : p \in {q \in tstore[Sibling(f)] : q[1] = i}} ELSE {})
         IN Products([i \in 1..Len(b) |-> Opt(i)])

\* a framer that hands the tag and the rest of the line to the file in two
\* separate writes
FramerWriteOkSplit(f) ==
    /\ ~exited
    /\ fpc[f] = "lock"
    /\ IF fline[f] # <<>> /\ fline[f][1] >= 200 /\ fline[f][1] < 300
       THEN /\ out' = [out EXCEPT ![f[2]] = out[f[2]] \o <<fline[f][1]>>]
            /\ fline' = [fline EXCEPT ![f] = Tail(fline[f])]
            /\ UNCHANGED <<fpc, sent>>
       ELSE /\ out' = [out EXCEPT ![f[2]] = out[f[2]] \o fline[f]]
            /\ sent' = [sent EXCEPT ![f] = Append(sent[f], ftok[f])]
            /\ fpc' = [fpc EXCEPT ![f] = "scan"]
            /\ UNCHANGED fline
    /\ UNCHANGED <<tagOf, tstore, fshared, script, lend, noColor, lpc, lidx, pipe, fbuf, ftok,
                   sinkFails, exited, exitCode>>

\* fullWrite(w, ...) calls FanInWriter.Write once: fiw.mu.Lock();
\* fullWrite(os.Stdout/os.Stderr, b), where the file (whose writes are
\* serialised by its own fd lock) writes every byte and returns nil;
\* fiw.mu.Unlock(); the outer fullWrite returns; next scan
FramerWriteOk(f) ==
    /\ ~exited
    /\ fpc[f] = "lock"
    /\ \E b \in LineChoices(f) : out' = [out EXCEPT ![f[2]] = out[f[2]] \o b]
    /\ sent' = [sent EXCEPT ![f] = Append(sent[f], ftok[f])]
    /\ fpc' = [fpc EXCEPT ![f] = "scan"]
    /\ UNCHANGED <<tagOf, tstore, fshared, script, lend, noColor, lpc, lidx, pipe, fbuf, ftok, fline,
                   sinkFails, exited, exitCode>>

\* as above, but the file write fails after m < len(b) bytes; the error
\* comes back through fullWrite, FanInWriter.Write (which unlocks) and the
\* outer fullWrite to the framer, which then prints (FramerErrLog)
FramerWriteFail(f) ==
    /\ ~exited
    /\ fpc[f] = "lock"
    /\ sinkFails < MaxSinkFailures
    /\ \E b \in LineChoices(f), m \in 0..(Len(fline[f]) - 1) :
          out' = [out EXCEPT ![f[2]] = out[f[2]] \o SubSeq(b, 1, m)]
    /\ sinkFails' = sinkFails + 1
    /\ fpc' = [fpc EXCEPT ![f] = "errlog"]
    /\ UNCHANGED <<tagOf, tstore, fshared, script, lend, noColor, lpc, lidx, pipe, fbuf, ftok, fline,
                   sent, exited, exitCode>>

\* fmt.Printf("Error attempting to write to dest: %s\n", err); break;
\* scan.Err() is nil; the framer goroutine returns
FramerErrLog(f) ==
    /\ ~exited
    /\ fpc[f] = "errlog"
    /\ out' = [out EXCEPT !["out"] = out["out"] \o MsgWriteErr]
    /\ fpc' = [fpc EXCEPT ![f] = "end"]
    /\ UNCHANGED <<tagOf, tstore, fshared, script, lend, noColor, lpc, lidx, pipe, fbuf, ftok, fline,
                   sinkFails, sent, exited, exitCode>>

LogsStep(s) ==
    \/ LogsWrite(s)
    \/ LogsReturn(s)
    \/ LogsExit(s)

LogNext ==
    \/ \E s \in Sources : LogsWrite(s)
    \/ \E s \in Sources : LogsReturn(s)
    \/ \E s \in Sources : LogsExit(s)
    \/ MainReturn
    \/ \E f \in Framers : FramerRead(f)
    \/ \E f \in Framers : FramerToken(f)
    \/ \E f \in Framers : FramerWriteOk(f)
    \/ \E f \in Framers : FramerWriteFail(f)
    \/ \E f \in Framers : FramerErrLog(f)

LogRest ==
    /\ script = [s \in Sources |-> <<>>]
    /\ lend = [s \in Sources |-> "ok"]
    /\ noColor = TRUE
    /\ lpc = [s \in Sources |-> "done"]
    /\ lidx = [s \in Sources |-> 1]
    /\ pipe = [f \in Framers |-> <<>>]
    /\ fpc = [f \in Framers |-> "scan"]
    /\ fbuf = [f \in Framers |-> <<>>]
    /\ ftok = [f \in Framers |-> <<>>]
    /\ fline = [f \in Framers |-> <<>>]
    /\ out = [k \in Sides |-> <<>>]
    /\ sinkFails = 0
    /\ sent = [f \in Framers |-> <<>>]
    /\ tstore = [f \in Framers |-> {}]
    /\ fshared = [f \in Framers |-> FALSE]
    /\ exited = TRUE
    /\ exitCode = 0
    /\ tagOf = SymbolTags

(***************************************************************************)
(* Part 4: tagConfig                                                       *)
(***************************************************************************)

\* largest number of display names passed to tagConfig
MaxTags == 3

\* display names (task names) the containers may carry
NameChoices == {<<97>>, <<97, 98>>, <<98>>}

\* postFix " | "
PostFix == <<32, 124, 32>>

\* colors: FgHiRed .. FgHiCyan, FgRed .. FgCyan (ANSI codes)
ColorCodes == <<91, 92, 93, 94, 95, 96, 31, 32, 33, 34, 35, 36>>

\* (*color.Color).Sprint(s) for a single attribute: "\x1b[<code>m" s "\x1b[0m",
\* or s when color.NoColor is set
ColorSprint(code, noCol, b) ==
    IF noCol THEN b ELSE <<27, 91>> \o Digits(code) \o <<109>> \o b \o <<27, 91, 48, 109>>

\* strings.Compare(a, b) < 0 (byte-wise)
RECURSIVE LessBytes(_, _)
LessBytes(a, b) ==
    IF a = <<>> THEN b # <<>>
    ELSE IF b = <<>> THEN FALSE
    ELSE IF Head(a) # Head(b) THEN Head(a) < Head(b)
    ELSE LessBytes(Tail(a), Tail(b))

RECURSIVE InsertSorted(_, _)
InsertSorted(x, srt) ==
    IF srt = <<>> THEN <<x>>
    ELSE IF LessBytes(Head(srt), x) \/ Head(srt) = x THEN <<Head(srt)>> \o InsertSorted(x, Tail(srt))
    ELSE <<x>> \o srt

\* a table builder that forgets to sort
SortStringsNone(t) == t

\* sort.Strings(tags)
RECURSIVE SortStrings(_)
SortStrings(t) == IF t = <<>> THEN <<>> ELSE InsertSorted(Head(t), SortStrings(Tail(t)))

RECURSIVE MaxLen(_)
MaxLen(t) == IF t = <<>> THEN 0 ELSE IF Len(Head(t)) > MaxLen(Tail(t)) THEN Len(Head(t)) ELSE MaxLen(Tail(t))

Spaces(n) == [i \in 1..n |-> 32]

\* fmtTag := tag + strings.Repeat(" ", tagLength-len(tag)) + postFix
FmtTag(tag, tagLength, pf) == tag \o Spaces(tagLength - Len(tag)) \o pf

\* for i, tag := range tags { cm[tag] = []byte(colors[i%len(colors)].Sprint(fmtTag)) }
RECURSIVE CmLoop(_, _, _, _, _, _)
CmLoop(tags, i, tagLength, pf, noCol, cm) ==
    IF i > Len(tags) THEN cm
    ELSE CmLoop(tags, i + 1, tagLength, pf, noCol,
                [n \in DOMAIN cm \cup {tags[i]} |->
                    IF n = tags[i]
                    THEN ColorSprint(ColorCodes[((i - 1) % Len(ColorCodes)) + 1], noCol,
                                     FmtTag(tags[i], tagLength, pf))
                    ELSE cm[n]])

\* tagConfig(tags, postFix): the map cm behind the returned closure
TagConfig(tags, pf, noCol) ==
    LET sorted == SortStrings(tags) IN
    CmLoop(sorted, 1, MaxLen(sorted), pf, noCol, [n \in {} |-> <<>>])

\* the closure: return cm[tag] (a missing key yields a nil []byte)
TagLookup(cm, tag) == IF tag \in DOMAIN cm THEN cm[tag] ELSE <<>>

Range(t) == {t[i] : i \in DOMAIN t}

NameLists == UNION {[1..n -> NameChoices] : n \in 1..MaxTags}

\* orderings of t
Reorderings(t) ==
    {[i \in 1..Len(t) |-> t[p[i]]] :
        p \in {q \in [1..Len(t) -> 1..Len(t)] : Range(q) = 1..Len(t)}}

\* a display name that no container carries
AbsentName == <<99>>

VARIABLES
    tIn1,      \* getTags(conts) in one discovery order
    tIn2,      \* the same names in another order
    tNoCol,    \* color.NoColor
    tTab1,     \* tagConfig's map for tIn1
    tTab2,     \* tagConfig's map for tIn2
    tBuilt,    \* tagConfig has run
    tLookName, \* name passed to the returned closure
    tLookRes,  \* what the closure returned
    tLookFail  \* the closure signalled a failure (panic)

tagVars == <<tIn1, tIn2, tNoCol, tTab1, tTab2, tBuilt, tLookName, tLookRes, tLookFail>>

TagInit ==
    /\ tIn1 \in NameLists
    /\ tIn2 \in Reorderings(tIn1)
    /\ tNoCol \in BOOLEAN
    /\ tTab1 = [n \in {} |-> <<>>]
    /\ tTab2 = [n \in {} |-> <<>>]
    /\ tBuilt = FALSE
    /\ tLookName = <<>>
    /\ tLookRes = <<>>
    /\ tLookFail = FALSE

\* tagFmt := tagConfig(getTags(conts), " | ") for both orders
TagBuild ==
    /\ ~tBuilt
    /\ tTab1' = TagConfig(tIn1, PostFix, tNoCol)
    /\ tTab2' = TagConfig(tIn2, PostFix, tNoCol)
    /\ tBuilt' = TRUE
    /\ UNCHANGED <<tIn1, tIn2, tNoCol, tLookName, tLookRes, tLookFail>>

\* tag := tagFmt(name)
TagLookupStep ==
    /\ tBuilt
    /\ tLookName = <<>>
    /\ \E n \in NameChoices \cup {AbsentName} :
          /\ tLookName' = n
          /\ tLookRes' = TagLookup(tTab1, n)
    /\ UNCHANGED <<tIn1, tIn2, tNoCol, tTab1, tTab2, tBuilt, tLookFail>>

TagNext == TagBuild \/ TagLookupStep

TagRest ==
    /\ tIn1 = <<>>
    /\ tIn2 = <<>>
    /\ tNoCol = TRUE
    /\ tTab1 = [n \in {} |-> <<>>]
    /\ tTab2 = [n \in {} |-> <<>>]
    /\ tBuilt = FALSE
    /\ tLookName = <<>>
    /\ tLookRes = <<>>
    /\ tLookFail = FALSE


\* C14: an empty result is not an error. When resolution succeeds with no
\* container, main prints "No services meet the criteria" and ends with
\* status 0 without starting any streaming task.
C14_EmptyNotError ==
    (returned /\ ret.err = NilErr /\ ret.conts = <<>>) =>
        /\ mpc # "streaming"
        /\ mpc = "exited" => (mcode = 0 /\ mmsg = <<MsgNoServices>>)

\* C14 witness: filters given, lookups succeeded with no match, main ended
C14_Witness ==
    /\ mpc = "exited"
    /\ returned
    /\ nNames > 0
    /\ ret.err = NilErr
    /\ ret.conts = <<>>

(***************************************************************************)
(* Part 5: the tag slice shared by one container's two framers             *)
(***************************************************************************)

\* task names of the single streamed container
RaceNames == {<<115, 118, 99, 49>>, <<119, 101, 98, 46, 49, 46>>}

\* lines each framer scans (scan.Bytes())
RaceTokens == {<<>>, <<97>>, <<97, 98>>}

VARIABLES
    rName,   \* the container's task name
    rNoCol,  \* color.NoColor
    rTok,    \* per side: the line the framer scanned
    rArr,    \* backing array of tag = tagFmt(name) (cap bytes)
    rpc,     \* per side framer: "append", "write", "done"
    rAlias,  \* per side: length of the append result when it aliases rArr, 0 if not
    rPriv,   \* per side: the bytes its append stored (tag ++ line ++ "\n")
    rOut     \* per side: bytes handed to the FanInWriter

raceVars == <<rName, rNoCol, rTok, rArr, rpc, rAlias, rPriv, rOut>>

RaceTag == TagConfig(<<rName>>, PostFix, rNoCol)[rName]

RaceInit ==
    /\ rName \in RaceNames
    /\ rNoCol \in BOOLEAN
    /\ rTok \in [Sides -> RaceTokens]
    /\ LET t == TagConfig(<<rName>>, PostFix, rNoCol)[rName] IN
         rArr = t \o [i \in 1..(RoundUpSize(Len(t)) - Len(t)) |-> 0]
    /\ rpc = [k \in Sides |-> "append"]
    /\ rAlias = [k \in Sides |-> 0]
    /\ rPriv = [k \in Sides |-> <<>>]
    /\ rOut = [k \in Sides |-> <<>>]

\* append(tag, append(logLine, []byte("\n")...)...): when the bytes fit in
\* cap(tag) they are copied into tag's backing array, which the other side's
\* framer shares; otherwise a new array is allocated
RaceAppend(k) ==
    /\ rpc[k] = "append"
    /\ LET x == LogLine(k, rNoCol, rTok[k]) \o <<NL>>
           L == Len(RaceTag)
       IN /\ rPriv' = [rPriv EXCEPT ![k] = RaceTag \o x]
          /\ IF L + Len(x) <= Len(rArr)
             THEN /\ rArr' = [i \in 1..Len(rArr) |-> IF i > L /\ i <= L + Len(x) THEN x[i - L] ELSE rArr[i]]
                  /\ rAlias' = [rAlias EXCEPT ![k] = L + Len(x)]
             ELSE UNCHANGED <<rArr, rAlias>>
    /\ rpc' = [rpc EXCEPT ![k] = "write"]
    /\ UNCHANGED <<rName, rNoCol, rTok, rOut>>

RaceOther(k) == IF k = "out" THEN "err" ELSE "out"

\* what a read of index i of an aliased append result of side k can see:
\* k's own store, or the sibling's store there when the sibling's append
\* aliased the array too (no synchronisation orders the two goroutines'
\* stores and reads, so the copy of either may be seen byte by byte)
RaceOpt(k, i) ==
    {rPriv[k][i]} \cup
        (IF i > Len(RaceTag) /\ rAlias[RaceOther(k)] >= i THEN {rPriv[RaceOther(k)][i]} ELSE {})

\* fullWrite(w, b): the FanInWriter's file write reads b's bytes
RaceWrite(k) ==
    /\ rpc[k] = "write"
    /\ IF rAlias[k] > 0
       THEN \E b \in Products([i \in 1..rAlias[k] |-> RaceOpt(k, i)]) : rOut' = [rOut EXCEPT ![k] = b]
       ELSE rOut' = [rOut EXCEPT ![k] = rPriv[k]]
    /\ rpc' = [rpc EXCEPT ![k] = "done"]
    /\ UNCHANGED <<rName, rNoCol, rTok, rArr, rAlias, rPriv>>

RaceNext ==
    \/ \E k \in Sides : RaceAppend(k)
    \/ \E k \in Sides : RaceWrite(k)

RaceRest ==
    /\ rName = <<>>
    /\ rNoCol = TRUE
    /\ rTok = [k \in Sides |-> <<>>]
    /\ rArr = <<>>
    /\ rpc = [k \in Sides |-> "done"]
    /\ rAlias = [k \in Sides |-> 0]
    /\ rPriv = [k \in Sides |-> <<>>]
    /\ rOut = [k \in Sides |-> <<>>]

\* C16: per-source state is not shared. A container's stdout and stderr
\* framers hand their sinks exactly tag ++ their own line ++ "\n", whatever
\* the interleaving; neither overwrites the other's bytes.
C16_TagNotShared ==
    \A k \in Sides :
        rpc[k] = "done" => rOut[k] = RaceTag \o LogLine(k, rNoCol, rTok[k]) \o <<NL>>


(***************************************************************************)
(* Specifications (each machine leaves the others' variables at rest)      *)
(***************************************************************************)

vars == <<fanVars, resVars, logVars, tagVars, raceVars>>

FanRest ==
    /\ wpc = [w \in Writers |-> "idle"]
    /\ mu = 0
    /\ wn = [w \in Writers |-> 0]
    /\ werr = [w \in Writers |-> FALSE]
    /\ dest = <<>>

ResolveRest ==
    /\ nNames = 0
    /\ lookup = [i \in 1..MaxNames |-> [conts |-> <<>>, err |-> NilErr]]
    /\ gpc = [i \in 1..MaxNames |-> "done"]
    /\ ch = <<>>
    /\ ret = NoRet
    /\ returned = FALSE
    /\ clientOk = TRUE
    /\ mpc = "streaming"
    /\ mcode = 0
    /\ mmsg = <<>>

Init == FanInit /\ ResolveRest /\ LogRest /\ TagRest /\ RaceRest

Next == FanNext /\ UNCHANGED <<resVars, logVars, tagVars, raceVars>>

Spec == Init /\ [][Next]_vars

ResolveSpecInit == FanRest /\ ResolveInit /\ LogRest /\ TagRest /\ RaceRest

ResolveSpecNext == ResolveNext /\ UNCHANGED <<fanVars, logVars, tagVars, raceVars>>

ResolveSpec == ResolveSpecInit /\ [][ResolveSpecNext]_vars

\* bytes client.Logs writes into the stream of framer f, in order
RECURSIVE SideBytes(_, _)
SideBytes(scr, k) ==
    IF scr = <<>> THEN <<>>
    ELSE (IF Head(scr).side = k THEN Head(scr).data ELSE <<>>) \o SideBytes(Tail(scr), k)

StreamBytes(f) == SideBytes(script[f[1]], f[2])

\* the units of a whole stream under the line rule "up to and including the
\* next '\n', an unterminated remainder as a final unit": scanLinesKeepCR
\* applied until end of stream
RECURSIVE KeepCRUnits(_)
KeepCRUnits(b) ==
    LET r == ScanLinesKeepCR(b, TRUE) IN
    IF ~r.ok THEN <<>> ELSE <<r.tok>> \o KeepCRUnits(SubSeq(b, r.adv + 1, Len(b)))

\* the unit a framer handed to its sink for each delivered line (its bytes
\* after the tag): logLine ++ "\n"
SentUnits(f) == [i \in 1..Len(sent[f]) |-> LogLine(f[2], noColor, sent[f][i]) \o <<NL>>]

IsPrefix(a, b) == Len(a) <= Len(b) /\ a = SubSeq(b, 1, Len(a))

\* the framer of f has consumed everything client.Logs wrote, which has
\* returned, and waits for more input
FramerDrained(f) ==
    /\ lpc[f[1]] = "done"
    /\ fpc[f] = "scan"
    /\ pipe[f] = <<>>
    /\ ~ScanLines(fbuf[f]).ok

\* C4: line framing. For the bytes written into a LineWriter followed by
\* the end of the stream, the framer emits one unit per line, a line being
\* the bytes up to and including the next '\n' and an unterminated
\* remainder a final unit without an added terminator ("a\nb\nc" gives
\* "a\n", "b\n", "c"); once it has consumed the whole stream all units are out.
\* (OutputStream framers: no colour decoration is involved.)
C4_LineFraming ==
    \A f \in Sources \X {"out"} :
        /\ IsPrefix(SentUnits(f), KeepCRUnits(StreamBytes(f)))
        /\ FramerDrained(f) => SentUnits(f) = KeepCRUnits(StreamBytes(f))

\* C5: each framed line is handed to the FanInWriter as one Write call
\* whose bytes are the tag, the line content (colour-decorated when the
\* framer has a colour) and "\n".
C5_LineUnit ==
    \A f \in Framers :
        fpc[f] = "lock" =>
            fline[f] = Tag(f[1]) \o (IF f[2] = "err" THEN ColorWrap(noColor, ftok[f]) ELSE ftok[f])
                       \o <<NL>>

\* C6: partial-failure isolation. When a source's stream fails after some of
\* its lines were written, only its task stops: the process is not
\* terminated, so the other sources go on.
C6_Isolation ==
    \A s \in Sources :
        (lpc[s] = "failed" /\ \E k \in Sides : sent[<<s, k>>] # <<>>) => ~exited

\* C7: sink write errors are local. After a framer stopped on a failed sink
\* write, its source's task still completes (client.Logs is not left
\* blocked writing into the framer) when every client.Logs call ends normally.
C7_SinkErrorLocal ==
    \A f \in Framers :
        (fpc[f] = "end" /\ \A s \in Sources : lend[s] = "ok") ~> (lpc[f[1]] = "done")

\* C8: no goroutine leaks. Once a source's client.Logs call has returned,
\* each of its two framer goroutines eventually terminates (or the whole
\* process has ended).
C8_NoLeak ==
    \A f \in Framers : (lpc[f[1]] = "done") ~> (fpc[f] = "end" \/ exited)

\* the '\n'-terminated lines of b, in order, without their "\n" / "\r\n"
\* terminator (the unterminated remainder is not a complete line yet)
RECURSIVE LinesOf(_, _)
LinesOf(b, cur) ==
    IF b = <<>> THEN <<>>
    ELSE IF Head(b) = NL
         THEN <<IF cur # <<>> /\ cur[Len(cur)] = CR THEN SubSeq(cur, 1, Len(cur) - 1) ELSE cur>>
              \o LinesOf(Tail(b), <<>>)
         ELSE LinesOf(Tail(b), Append(cur, Head(b)))

\* C9: ordering within a stream. For every stream (a source's stdout or
\* stderr), the lines delivered at its destination are, in delivery order,
\* the stream's lines in the order they occur in its bytes, whatever the
\* interleaving with other sources.
C9_StreamOrder ==
    \A f \in Framers : IsPrefix(sent[f], LinesOf(StreamBytes(f), <<>>))

\* C9 witness: a stream delivered two lines while another source's line was
\* delivered between the writes of its chunks
C9_Witness ==
    \E f \in Framers :
        /\ Len(sent[f]) = 2
        /\ \E g \in Framers : g[1] # f[1] /\ sent[g] # <<>>

\* C10: fatal open failure. When a source's client.Logs call returns an
\* error, "Logger failed" naming that source is written to stderr and the
\* process exits with status 1, whatever the other sources are doing; the
\* process never exits with status 0 if some source's client.Logs fails.
C10_FatalOpen ==
    /\ \A s \in Sources :
          lpc[s] = "failed" =>
              /\ exited
              /\ exitCode = 1
              /\ \E i \in 1..(Len(out["err"]) - 1) : SubSeq(out["err"], i, i + 1) = MsgLoggerFailed(s)
    /\ (exited /\ exitCode = 0) => \A s \in Sources : lend[s] # "err"

\* C10 witness: a source's client.Logs failed before writing anything while
\* another source had already streamed a line
C10_Witness ==
    /\ \E s \in Sources : lpc[s] = "failed" /\ script[s] = ScriptNone
    /\ \E t \in Sources : sent[<<t, "out">>] # <<>>

\* C11: orchestrator barrier. logContainers returns (the process ends with
\* status 0) only after every container's client.Logs call has returned;
\* never while a following call is still running.
C11_Barrier ==
    (exited /\ exitCode = 0) => \A s \in Sources : lpc[s] = "done" /\ lend[s] = "ok"

\* C11 witness: logContainers returned after every container's call ended
C11_Witness ==
    /\ exited
    /\ exitCode = 0
    /\ \A s \in Sources : lidx[s] > Len(script[s])

\* C13 (as stated): fan-in exclusivity. During streaming every write to
\* stdout or stderr goes through that destination's FanInWriter: whatever is
\* appended to a destination is (part of) a line a framer hands to it.
C13_Exclusive ==
    [][\A k \in Sides :
         out'[k] # out[k] =>
            \E f \in Sources \X {k} :
                IsPrefix(SubSeq(out'[k], Len(out[k]) + 1, Len(out'[k])), fline[f])]_vars

TagSyms == {Tag(s)[1] : s \in Sources}

\* in the bytes o of a destination, every direct message (a message symbol
\* and "\n") is followed by the end of o, a tag (the start of a framed line)
\* or another message: never by the rest of a line it interrupted. Line
\* content bytes are below 200, tags 200-299, message symbols 300 and up.
MessagesBetweenLines(o) ==
    \A i \in 1..Len(o) :
        o[i] >= 300 =>
            /\ i + 1 <= Len(o)
            /\ o[i + 1] = NL
            /\ i + 2 <= Len(o) => o[i + 2] >= 200

\* C13 (amended): status messages ("Stream X exited.", "Logger failed")
\* and framer error logs are written to os.Stdout / os.Stderr directly, not
\* through the FanInWriter; but each is a single write on the file and each
\* framed line is a single file write made under the FanInWriter's lock, so
\* none of them lands inside a line at either destination, write failures
\* included (a line cut short by a failed write is followed by whatever
\* comes next, never by its own remaining bytes).
C13_NoIntrusion == \A k \in Sides : MessagesBetweenLines(out[k])

\* C13 witness: after a failed stdout write, the framer's error log sits
\* between framed lines on stdout, and a "Logger failed" message follows a
\* framed line on stderr
C13_Witness ==
    /\ sinkFails = 1
    /\ \E i, j \in 1..Len(out["out"]) :
          /\ i < j
          /\ out["out"][i] = 400
          /\ out["out"][j] \in TagSyms
    /\ \E i, j \in 1..Len(out["err"]) :
          /\ i < j
          /\ out["err"][i] \in TagSyms
          /\ out["err"][j] >= 500

\* C17: no output loss at completion. When logContainers returns, every
\* line written into a container's LineWriters (an unterminated remainder
\* included) has been delivered to the FanInWriter.
C17_NoLoss ==
    (exited /\ exitCode = 0 /\ sinkFails = 0) =>
        \A f \in Framers : Len(sent[f]) = Len(KeepCRUnits(StreamBytes(f)))

LogSpecInit == FanRest /\ ResolveRest /\ TagRest /\ RaceRest /\ LogInit

LogSpecNext == LogNext /\ UNCHANGED <<fanVars, resVars, tagVars, raceVars>>

LogSpec == LogSpecInit /\ [][LogSpecNext]_vars

\* goroutines are scheduled fairly: a runnable goroutine eventually runs,
\* and a goroutine waiting on a FanInWriter's sync.Mutex eventually gets it
LogFairness ==
    /\ \A s \in Sources : WF_vars(LogsStep(s) /\ UNCHANGED <<fanVars, resVars, tagVars, raceVars>>)
    /\ WF_vars(MainReturn /\ UNCHANGED <<fanVars, resVars, tagVars, raceVars>>)
    /\ \A f \in Framers :
          /\ WF_vars((FramerRead(f) \/ FramerToken(f)) /\ UNCHANGED <<fanVars, resVars, tagVars, raceVars>>)
          /\ SF_vars((FramerWriteOk(f) \/ FramerWriteFail(f)) /\ UNCHANGED <<fanVars, resVars, tagVars, raceVars>>)
          /\ WF_vars(FramerErrLog(f) /\ UNCHANGED <<fanVars, resVars, tagVars, raceVars>>)

LogFairSpec == LogSpec /\ LogFairness

\* containers whose client.Logs makes two stdout writes (two lines, then one)
\* and then returns nil, keeps following or fails, on a non-terminal output
LeakSpecInit == FanRest /\ ResolveRest /\ TagRest /\ RaceRest /\ LogInitFrom({ScriptTwoWrites}, LogsEnds, {TRUE})

LeakSpec == LeakSpecInit /\ [][LogSpecNext]_vars /\ LogFairness

\* a container writing three stdout lines in two chunks, next to containers
\* writing one line, each client.Logs returning nil or an error
OrderSpecInit ==
    FanRest /\ ResolveRest /\ TagRest /\ RaceRest /\ LogInitFrom2({ScriptTwoWrites}, {ScriptOneLine}, {"ok", "err"}, {TRUE})

OrderSpec == OrderSpecInit /\ [][LogSpecNext]_vars

\* containers whose client.Logs writes nothing or one line and then returns
\* nil, fails, or keeps following
FatalSpecInit ==
    FanRest /\ ResolveRest /\ TagRest /\ RaceRest /\ LogInitFrom({ScriptNone, ScriptOneLine}, LogsEnds, {TRUE})

FatalSpec == FatalSpecInit /\ [][LogSpecNext]_vars

\* a container writing a stderr line then a stdout line, next to containers
\* that only print their status messages; each client.Logs returns nil or
\* fails; output is not a terminal
ExclSpecInit ==
    FanRest /\ ResolveRest /\ TagRest /\ RaceRest /\ LogInitFrom2({ScriptBothSides}, {ScriptNone}, {"ok", "err"}, {TRUE})

ExclSpec == ExclSpecInit /\ [][LogSpecNext]_vars


TagSpecInit == FanRest /\ ResolveRest /\ LogRest /\ TagInit /\ RaceRest

TagSpecNext == TagNext /\ UNCHANGED <<fanVars, resVars, logVars, raceVars>>

TagSpec == TagSpecInit /\ [][TagSpecNext]_vars

\* number of names of t strictly below n / equal to n in byte order
CountBelow(t, n) == Cardinality({i \in DOMAIN t : LessBytes(t[i], n)})
CountEqual(t, n) == Cardinality({i \in DOMAIN t : t[i] = n})

RECURSIVE MaxNameLen(_)
MaxNameLen(t) == IF t = <<>> THEN 0 ELSE LET m == MaxNameLen(Tail(t)) IN
                 IF Len(Head(t)) > m THEN Len(Head(t)) ELSE m

\* C12: tag table determinism and fixed width. tagConfig gives the same tag
\* bytes for every name whatever the order of the names; each name's tag is
\* colors[i mod len(colors)] applied to the name padded with spaces to the
\* longest name's length followed by the separator, i being a position of
\* the name in the sorted list; the undecorated tag is max(name length) +
\* len(separator) long.
C12_TagTable ==
    tBuilt =>
        /\ tTab1 = tTab2
        /\ DOMAIN tTab1 = Range(tIn1)
        /\ \A n \in Range(tIn1) :
              \E pad \in {n \o Spaces(MaxNameLen(tIn1) - Len(n)) \o PostFix} :
                 /\ Len(pad) = MaxNameLen(tIn1) + Len(PostFix)
                 /\ \E i \in (CountBelow(tIn1, n) + 1)..(CountBelow(tIn1, n) + CountEqual(tIn1, n)) :
                       tTab1[n] = ColorSprint(ColorCodes[((i - 1) % 12) + 1], tNoCol, pad)

\* C15: looking up a display name that was not passed to tagConfig fails
\* explicitly (the closure panics or reports an error) instead of quietly
\* returning an empty tag.
C15_MissingNameFails ==
    (tLookName # <<>> /\ tLookName \notin Range(tIn1)) => tLookFail

\* C12 witness: three names of different lengths in two different orders,
\* coloured output
C12_Witness ==
    /\ tBuilt
    /\ tIn1 # tIn2
    /\ Cardinality(Range(tIn1)) = 3
    /\ ~tNoCol

\* task names "svc1" and "svc22"; lines "hello" and "world"
Svc1 == <<115, 118, 99, 49>>
Svc22 == <<115, 118, 99, 50, 50>>
Hello == <<104, 101, 108, 108, 111>>
World == <<119, 111, 114, 108, 100>>

E2EName(s) == IF s = 1 THEN Svc1 ELSE Svc22

\* logContainers on containers svc1 and svc22 streaming "hello\n" and
\* "world\n" to stdout on a terminal, with tags from
\* tagConfig(getTags(conts), " | "); each client.Logs then returns nil or
\* an error
E2ESpecInit ==
    /\ FanRest /\ ResolveRest /\ TagRest /\ RaceRest
    /\ LogInitCore({<< [side |-> "out", data |-> Hello \o <<NL>>] >>},
                   {<< [side |-> "out", data |-> World \o <<NL>>] >>}, {"ok", "err"}, {FALSE})
    /\ tagOf = [s \in Sources |-> TagConfig([i \in Sources |-> E2EName(i)], PostFix, FALSE)[E2EName(s)]]

E2ESpec == E2ESpecInit /\ [][LogSpecNext]_vars

\* stdout without the direct "Stream X exited." messages
RECURSIVE StripExited(_)
StripExited(o) ==
    IF o = <<>> THEN <<>>
    ELSE IF Len(o) >= 2 /\ o[1] \in {300 + s : s \in Sources} /\ o[2] = NL
         THEN StripExited(SubSeq(o, 3, Len(o)))
         ELSE <<Head(o)>> \o StripExited(Tail(o))

\* C18: end-to-end scenario. For sources svc1 and svc22 with separator
\* " | ", the tags are "svc1  | " in colors[0] and "svc22 | " in colors[1],
\* and streaming "hello\n" from svc1 and "world\n" from svc22 yields exactly
\* two tagged stdout lines, each intact, in some order.
C18_EndToEnd ==
    /\ tagOf[1] = ColorSprint(91, FALSE, <<115, 118, 99, 49, 32, 32, 124, 32>>)
    /\ tagOf[2] = ColorSprint(92, FALSE, <<115, 118, 99, 50, 50, 32, 124, 32>>)
    /\ (exited /\ exitCode = 0 /\ sinkFails = 0) =>
          LET L1 == tagOf[1] \o Hello \o <<NL>>
              L2 == tagOf[2] \o World \o <<NL>>
          IN StripExited(out["out"]) \in {L1 \o L2, L2 \o L1}

RaceSpecInit == FanRest /\ ResolveRest /\ LogRest /\ TagRest /\ RaceInit

RaceSpecNext == RaceNext /\ UNCHANGED <<fanVars, resVars, logVars, tagVars>>

RaceSpec == RaceSpecInit /\ [][RaceSpecNext]_vars

====
